---- MODULE Spec2Model ----
(***************************************************************************)
(* State-machine model of the SPO2 computation engine of DIY-SPO2          *)
(* (src/spo2.py): the sample window filled by add_data, the R value and    *)
(* heart-rate computations run when the window wraps, the calibration      *)
(* table with its two setters, its JSON file, and the spo2 read-out by     *)
(* numpy.interp; and of the calibration tab of the main window that        *)
(* reads the table widget into the engine (src/main.py).                   *)
(*                                                                         *)
(* Numbers.  Samples and millisecond timestamps are whole numbers and are  *)
(* held as they are.  The float64 computations of the engine on them (the  *)
(* RMS values, the R value, the heart rate, the samples per second) are    *)
(* carried out in float64 arithmetic, operation by operation; i ** 2 is    *)
(* the one operation whose result depends on the build, and is either of   *)
(* the two floats around the exact square.  The R                          *)
(* value is then held in fixed point, a float q as the integer             *)
(* floor(q * Unit).  The numbers of the calibration table are decimal      *)
(* numbers of few places and are held as the integer q * Unit; quotients   *)
(* of fixed-point numbers are kept exact, as a record [n, d] for n/d.      *)
(* The lists given to the setters and found in the file hold neither NaN   *)
(* nor an infinity.                                                        *)
(*                                                                         *)
(* Exceptions.  Every operation leaves its outcome in ret: the name of the *)
(* exception that left the call (exc), or "none" and the returned value.   *)
(***************************************************************************)
EXTENDS Integers, Sequences, FiniteSets, TLC

VARIABLES
    phase,                \* "new": SPO2(...) not called yet; "ready": constructed; "failed": __init__ raised
    file,                 \* the calibration file on disk
    writable,             \* whether open(file_path, 'w') is permitted
    squares,              \* what i ** 2 has given in this build so far, by |i|
    max_readings,         \* self._max_readings
    cal_r,                \* self._cal_r
    cal_spo2,             \* self._cal_spo2
    data_index,           \* self._data_index
    raw_red,              \* self._raw_red
    raw_ir,               \* self._raw_ir
    raw_time,             \* self._raw_time
    rms_red,              \* self._rms_red, a float
    rms_ir,               \* self._rms_ir, a float
    r_value,              \* self._r_value
    r_value_history,      \* self._r_value_history
    heart_rate_inst,      \* self._heart_rate_inst
    heart_rate_avg,       \* self._heart_rate_avg
    heart_rate_history,   \* self._heart_rate_history, a list of floats
    peaks,                \* self._peaks
    samples_per_second,   \* self._samples_per_second
    clock,                \* the caller's millisecond clock (QElapsedTimer.elapsed())
    calls,                \* add_data calls since construction or the last reset
    windows,              \* windows completed since construction
    ret                   \* outcome of the last operation

vars == <<phase, file, writable, squares, max_readings, cal_r, cal_spo2, data_index,
          raw_red, raw_ir, raw_time, rms_red, rms_ir, r_value, r_value_history,
          heart_rate_inst, heart_rate_avg, heart_rate_history, peaks,
          samples_per_second, clock, calls, windows, ret>>

calVars == <<cal_r, cal_spo2>>

engineVars == <<data_index, raw_red, raw_ir, raw_time, rms_red, rms_ir, r_value,
                r_value_history, heart_rate_inst, heart_rate_avg,
                heart_rate_history, peaks, samples_per_second>>

----------------------------------------------------------------------------
(* Bounds of the model *)

\* Resolution of the fixed-point numbers: hundredths.
Unit == 100

\* Longest list handed to a calibration setter or found in a calibration file.
MaxTableLen == 2

\* Longest calibration table of the interpolation specification.
MaxInterpLen == 3

----------------------------------------------------------------------------
(* Arithmetic helpers *)

Min(a, b) == IF a < b THEN a ELSE b

Max(a, b) == IF a > b THEN a ELSE b

Abs(a) == IF a < 0 THEN -a ELSE a

RECURSIVE Gcd(_, _)
Gcd(a, b) == IF b = 0 THEN a ELSE Gcd(b, a % b)

\* The fraction n/d in lowest terms, d > 0.
Rat(n, d) ==
    LET g == Gcd(Abs(n), Abs(d))
        s == IF d < 0 THEN -1 ELSE 1
    IN  [n |-> s * (n \div g), d |-> s * (d \div g)]

RatOfInt(k) == [n |-> k, d |-> 1]

RECURSIVE SumRange(_, _, _)
SumRange(s, lo, hi) ==
    IF lo > hi THEN 0
    ELSE IF lo = hi THEN s[lo]
    ELSE LET mid == (lo + hi) \div 2
         IN  SumRange(s, lo, mid) + SumRange(s, mid + 1, hi)

Sum(s) == SumRange(s, 1, Len(s))

RECURSIVE SqrtSearch(_, _, _)
SqrtSearch(n, lo, hi) ==
    IF lo = hi THEN lo
    ELSE LET mid == (lo + hi + 1) \div 2
         IN  IF mid * mid <= n THEN SqrtSearch(n, mid, hi)
             ELSE SqrtSearch(n, lo, mid - 1)

\* floor(sqrt(n)) for 0 <= n < 2^31.
ISqrt(n) == SqrtSearch(n, 0, Min(n, 46340))

\* math.floor of a fixed-point number.
Floor(v) == v \div Unit

\* Truncation toward zero of a fixed-point number.
Trunc(v) == IF v >= 0 THEN v \div Unit ELSE -((-v) \div Unit)

\* All sequences over S of length at most n.
SeqsUpTo(S, n) == UNION {[1..k -> S] : k \in 0..n}

(* Whole numbers beyond 31 bits: the sequence of the digits of a number in *)
(* base 2^15, least significant first, without leading zero digit.         *)

Base == 2 ^ 15

\* w, with v evaluated before it: the steps of a long loop are evaluated in
\* the order of the loop.
Then(v, w) == IF v = v THEN w ELSE w

RECURSIVE IntBitLen(_)
IntBitLen(n) == IF n = 0 THEN 0 ELSE 1 + IntBitLen(n \div 2)

LimbBits == IntBitLen(Base - 1)

RECURSIVE BigOfInt(_)
BigOfInt(n) == IF n = 0 THEN <<>> ELSE <<n % Base>> \o BigOfInt(n \div Base)

RECURSIVE BigToInt(_)
BigToInt(a) == IF a = <<>> THEN 0 ELSE a[1] + Base * BigToInt(Tail(a))

RECURSIVE BigTrim(_)
BigTrim(a) ==
    IF a = <<>> \/ a[Len(a)] # 0 THEN a ELSE BigTrim(SubSeq(a, 1, Len(a) - 1))

Limb(a, i) == IF i <= Len(a) THEN a[i] ELSE 0

RECURSIVE BigCmpFrom(_, _, _)
BigCmpFrom(a, b, i) ==
    IF i = 0 THEN 0
    ELSE IF a[i] < b[i] THEN -1
    ELSE IF a[i] > b[i] THEN 1
    ELSE BigCmpFrom(a, b, i - 1)

\* -1, 0 or 1 as a is less than, equal to or greater than b.
BigCmp(a, b) ==
    IF Len(a) < Len(b) THEN -1
    ELSE IF Len(a) > Len(b) THEN 1
    ELSE BigCmpFrom(a, b, Len(a))

RECURSIVE BigAddFrom(_, _, _, _)
BigAddFrom(a, b, i, carry) ==
    IF i > Len(a) /\ i > Len(b) THEN (IF carry = 0 THEN <<>> ELSE <<carry>>)
    ELSE LET t == Limb(a, i) + Limb(b, i) + carry
         IN  <<t % Base>> \o BigAddFrom(a, b, i + 1, t \div Base)

BigAdd(a, b) == BigAddFrom(a, b, 1, 0)

RECURSIVE BigSubFrom(_, _, _, _)
BigSubFrom(a, b, i, borrow) ==
    IF i > Len(a) THEN <<>>
    ELSE LET t == a[i] - Limb(b, i) - borrow
         IN  <<IF t < 0 THEN t + Base ELSE t>>
                 \o BigSubFrom(a, b, i + 1, IF t < 0 THEN 1 ELSE 0)

\* a - b for a >= b.
BigSub(a, b) == BigTrim(BigSubFrom(a, b, 1, 0))

RECURSIVE BigMulSmallFrom(_, _, _, _)
BigMulSmallFrom(a, k, i, carry) ==
    IF i > Len(a) THEN BigOfInt(carry)
    ELSE LET t == a[i] * k + carry
         IN  <<t % Base>> \o BigMulSmallFrom(a, k, i + 1, t \div Base)

\* a * k for 0 <= k <= Base.
BigMulSmall(a, k) == IF k = 0 THEN <<>> ELSE BigMulSmallFrom(a, k, 1, 0)

RECURSIVE BigMul(_, _)
BigMul(a, b) ==
    IF a = <<>> \/ b = <<>> THEN <<>>
    ELSE LET rest == BigMul(a, Tail(b))
         IN  BigAdd(BigMulSmall(a, b[1]), IF rest = <<>> THEN <<>> ELSE <<0>> \o rest)

\* a * 2^k
BigShl(a, k) ==
    IF a = <<>> THEN <<>>
    ELSE [i \in 1..(k \div LimbBits) |-> 0] \o BigMulSmall(a, 2 ^ (k % LimbBits))

RECURSIVE BigQuotFrom(_, _, _, _)
BigQuotFrom(a, k, i, rem) ==
    IF i = 0 THEN <<>>
    ELSE LET t == rem * Base + a[i]
         IN  BigQuotFrom(a, k, i - 1, t % k) \o <<t \div k>>

\* floor(a / 2^k)
BigShr(a, k) ==
    LET n == k \div LimbBits
    IN  IF n >= Len(a) THEN <<>>
        ELSE LET top == SubSeq(a, n + 1, Len(a))
             IN  BigTrim(BigQuotFrom(top, 2 ^ (k % LimbBits), Len(top), 0))

\* The number of binary digits of a.
BigBitLen(a) ==
    IF a = <<>> THEN 0 ELSE LimbBits * (Len(a) - 1) + IntBitLen(a[Len(a)])

\* Binary digit i of a, digit 0 being the least significant.
BigBit(a, i) == (Limb(a, (i \div LimbBits) + 1) \div (2 ^ (i % LimbBits))) % 2

RECURSIVE IntTrailingZeros(_)
IntTrailingZeros(n) == IF n % 2 = 1 THEN 0 ELSE 1 + IntTrailingZeros(n \div 2)

RECURSIVE BigTrailingZeros(_)
BigTrailingZeros(a) ==
    IF a[1] = 0 THEN LimbBits + BigTrailingZeros(Tail(a)) ELSE IntTrailingZeros(a[1])

\* Long division in base 2 of a by b: one step brings down binary digit i of
\* a into the remainder r and decides the next digit of the quotient q; the
\* steps for the digits hi down to lo are taken in turn.
BigDivStep(a, b, i, qr) ==
    LET r2 == BigAdd(BigMulSmall(qr.r, 2), BigOfInt(BigBit(a, i)))
    IN  IF BigCmp(r2, b) >= 0
        THEN [q |-> BigAdd(BigMulSmall(qr.q, 2), <<1>>), r |-> BigSub(r2, b)]
        ELSE [q |-> BigMulSmall(qr.q, 2), r |-> r2]

RECURSIVE BigDivRange(_, _, _, _, _)
BigDivRange(a, b, hi, lo, qr) ==
    IF hi < lo THEN qr
    ELSE IF hi = lo THEN BigDivStep(a, b, hi, qr)
    ELSE LET mid == (hi + lo) \div 2
             upper == BigDivRange(a, b, hi, mid + 1, qr)
         IN  Then(upper, BigDivRange(a, b, mid, lo, upper))

\* Quotient q and remainder r of a by b > 0.
BigDivMod(a, b) == BigDivRange(a, b, BigBitLen(a) - 1, 0, [q |-> <<>>, r |-> <<>>])

\* floor(sqrt(a)): one step decides binary digit i of the root r, the digits
\* above it being decided; the steps for the digits hi down to lo are taken
\* in turn.
BigSqrtStep(a, i, r) ==
    LET c == BigAdd(r, BigShl(<<1>>, i))
    IN  IF BigCmp(BigMul(c, c), a) <= 0 THEN c ELSE r

RECURSIVE BigSqrtRange(_, _, _, _)
BigSqrtRange(a, hi, lo, r) ==
    IF hi < lo THEN r
    ELSE IF hi = lo THEN BigSqrtStep(a, hi, r)
    ELSE LET mid == (hi + lo) \div 2
             upper == BigSqrtRange(a, hi, mid + 1, r)
         IN  Then(upper, BigSqrtRange(a, mid, lo, upper))

BigSqrt(a) == BigSqrtRange(a, (BigBitLen(a) + 1) \div 2, 0, <<>>)

----------------------------------------------------------------------------
(* float64 arithmetic.  A finite float is [s, m, e] for s * m * 2^e, s the *)
(* sign 1 or -1 and m odd, or zero with m empty and e = 0; the infinity    *)
(* has m empty and e = 1.  Every operation gives the float nearest to the  *)
(* exact result, ties to the even significand (IEEE 754 binary64), for     *)
(* results within the normal exponent range; the sign of a zero is not     *)
(* kept.                                                                   *)

\* Binary digits of a significand: 52 stored and the implicit leading one.
Precision == 52 + 1

FZero == [s |-> 1, m |-> <<>>, e |-> 0]

FInf == [s |-> 1, m |-> <<>>, e |-> 1]

FIsZero(a) == a = FZero

\* s * m * 2^e for a whole number m of at most Precision binary digits.
Float(s, m, e) ==
    IF m = <<>> THEN FZero
    ELSE LET z == BigTrailingZeros(m)
         IN  [s |-> s, m |-> BigShr(m, z), e |-> e + z]

\* The float nearest to s * (m + f) * 2^e, where 0 <= f < 1 and f > 0
\* exactly if sticky; m has at least Precision + 2 digits when sticky.
FRound(s, m, e, sticky) ==
    LET d == BigBitLen(m) - Precision
    IN  IF d <= 0 THEN Float(s, m, e)
        ELSE LET kept == BigShr(m, d)
                 low == BigSub(m, BigShl(kept, d))
                 c == BigCmp(low, BigShl(<<1>>, d - 1))
                 up == c > 0 \/ (c = 0 /\ (sticky \/ kept[1] % 2 = 1))
             IN  Float(s, IF up THEN BigAdd(kept, <<1>>) ELSE kept, e + d)

\* float(n) of a whole number n.
FOfInt(n) == Float(IF n < 0 THEN -1 ELSE 1, BigOfInt(Abs(n)), 0)

FNeg(a) == IF a.m = <<>> THEN a ELSE [a EXCEPT !.s = -a.s]

\* |a|
FAbs(a) == [a EXCEPT !.s = 1]

\* The exact sum of two finite floats, not rounded: sign, whole number and
\* exponent.
FExactAdd(a, b) ==
    LET e == Min(a.e, b.e)
        ma == BigShl(a.m, a.e - e)
        mb == BigShl(b.m, b.e - e)
        c == BigCmp(ma, mb)
    IN  IF a.s = b.s THEN [s |-> a.s, m |-> BigAdd(ma, mb), e |-> e]
        ELSE IF c >= 0 THEN [s |-> a.s, m |-> BigSub(ma, mb), e |-> e]
        ELSE [s |-> b.s, m |-> BigSub(mb, ma), e |-> e]

\* a + b
FAdd(a, b) ==
    IF a.m = <<>> THEN b
    ELSE IF b.m = <<>> THEN a
    ELSE LET t == FExactAdd(a, b) IN FRound(t.s, t.m, t.e, FALSE)

\* a - b
FSub(a, b) == FAdd(a, FNeg(b))

\* a * b
FMul(a, b) ==
    IF a.m = <<>> \/ b.m = <<>> THEN FZero
    ELSE FRound(a.s * b.s, BigMul(a.m, b.m), a.e + b.e, FALSE)

\* The floats next to the exact square of a finite a: the greatest that is
\* not above it and the least that is not below it, the square itself when
\* it is a float.
SquareDown(a) ==
    LET m == BigMul(a.m, a.m)
        d == Max(0, BigBitLen(m) - Precision)
    IN  Float(1, BigShr(m, d), 2 * a.e + d)

SquareUp(a) ==
    LET m == BigMul(a.m, a.m)
        d == Max(0, BigBitLen(m) - Precision)
    IN  IF d = 0 THEN Float(1, m, 2 * a.e)
        ELSE Float(1, BigAdd(BigShr(m, d), <<1>>), 2 * a.e + d)

\* The float nearest to (s * m * 2^e) / d for whole numbers m and d > 0.
FQuotient(s, m, e, d) ==
    IF m = <<>> THEN FZero
    ELSE LET k == Max(0, Precision + 2 + BigBitLen(d) - BigBitLen(m))
             qr == BigDivMod(BigShl(m, k), d)
         IN  FRound(s, qr.q, e - k, qr.r # <<>>)

\* a / b for b nonzero.
FDiv(a, b) == FQuotient(a.s * b.s, a.m, a.e - b.e, b.m)

\* math.sqrt(a) for a >= 0.  The root of the square of a float with a short
\* significand is that float; otherwise floor(sqrt(m * 2^k)) is rounded, with
\* k making the exponent even and the root long enough.
FSqrt(a) ==
    IF a.m = <<>> THEN FZero
    ELSE IF a.e % 2 = 0 /\ Len(a.m) <= 2 /\ ISqrt(BigToInt(a.m)) ^ 2 = BigToInt(a.m)
    THEN Float(1, BigOfInt(ISqrt(BigToInt(a.m))), a.e \div 2)
    ELSE LET k0 == Max(0, 2 * (Precision + 2) - BigBitLen(a.m))
             k == IF (a.e - k0) % 2 = 0 THEN k0 ELSE k0 + 1
             wide == BigShl(a.m, k)
             root == BigSqrt(wide)
         IN  FRound(1, root, (a.e - k) \div 2, BigMul(root, root) # wide)

\* math.floor(a) of a finite float.
FFloor(a) ==
    IF a.e >= 0 THEN a.s * BigToInt(BigShl(a.m, a.e))
    ELSE LET kept == BigShr(a.m, -a.e)
             q == BigToInt(kept)
         IN  IF a.s < 0 /\ BigShl(kept, -a.e) # a.m THEN -(q + 1) ELSE a.s * q

\* round(a) of a finite float: the nearest whole number, ties to the even one.
FRoundInt(a) ==
    IF a.e >= 0 THEN a.s * BigToInt(BigShl(a.m, a.e))
    ELSE LET d == -a.e
             kept == BigShr(a.m, d)
             low == BigSub(a.m, BigShl(kept, d))
             c == BigCmp(low, BigShl(<<1>>, d - 1))
             q == BigToInt(kept)
         IN  a.s * (IF c > 0 \/ (c = 0 /\ q % 2 = 1) THEN q + 1 ELSE q)

\* The fixed-point number that stands for a finite float.
FixOf(a) ==
    LET scaled == [a EXCEPT !.m = BigMulSmall(a.m, Unit)]
    IN  IF a.m = <<>> THEN 0 ELSE FFloor(scaled)

----------------------------------------------------------------------------
(* Outcomes *)

\* arg is the x of an Interpolate call and data the list given to a setter;
\* they are 0 and the empty list for the other operations.
Returned(op, val) ==
    [op |-> op, exc |-> "none", val |-> val, arg |-> RatOfInt(0), data |-> <<>>]

Raised(op, exc) ==
    [op |-> op, exc |-> exc, val |-> RatOfInt(0), arg |-> RatOfInt(0), data |-> <<>>]

None == RatOfInt(0)

True == RatOfInt(1)

False == RatOfInt(0)

----------------------------------------------------------------------------
(* The calibration table and its file *)

default_cal_r ==
    <<(4 * Unit) \div 10, (85 * Unit) \div 100, (98 * Unit) \div 100,
      (11 * Unit) \div 10, 10 * Unit>>

default_cal_spo2 == <<100 * Unit, 97 * Unit, 96 * Unit, 95 * Unit, 0>>

\* json.dump writing every number as an integer.
JsonNumber_WholeOnly(v) ==
    [neg |-> v < 0, whole |-> (IF v < 0 THEN -v ELSE v) \div Unit, frac |-> 0]

\* json.dump of one number: its sign, whole part and fraction digits.
JsonNumber(v) ==
    [neg |-> v < 0, whole |-> Abs(v) \div Unit, frac |-> Abs(v) % Unit]

\* json.load of one number token.
JsonParseNumber(t) ==
    LET m == t.whole * Unit + t.frac IN IF t.neg THEN -m ELSE m

JsonList(s) == [i \in 1..Len(s) |-> JsonNumber(s[i])]

JsonParseList(t) == [i \in 1..Len(t) |-> JsonParseNumber(t[i])]

\* A file holding a JSON object with the given keys.
JsonFile(keys, r, s) ==
    [kind |-> "json", keys |-> keys, R_TABLE |-> JsonList(r), SPO2_TABLE |-> JsonList(s)]

AbsentFile == [kind |-> "absent", keys |-> {}, R_TABLE |-> <<>>, SPO2_TABLE |-> <<>>]

UnparseableFile ==
    [kind |-> "unparseable", keys |-> {}, R_TABLE |-> <<>>, SPO2_TABLE |-> <<>>]

\* What _save_cal_file leaves on disk: the new content when the file can be
\* opened for writing, the old content when open raises PermissionError
\* (caught and logged).
save_cal_file(f, r, s) ==
    IF writable THEN JsonFile({"R_TABLE", "SPO2_TABLE"}, r, s) ELSE f

\* load_cal_file that treats a malformed file like an absent one.
load_cal_file_DefaultsOnError(f, r0, s0) ==
    IF f.kind = "json" /\ f.keys = {"R_TABLE", "SPO2_TABLE"}
    THEN [exc |-> "none", r |-> JsonParseList(f.R_TABLE),
          s |-> JsonParseList(f.SPO2_TABLE), file |-> f]
    ELSE [exc |-> "none", r |-> default_cal_r, s |-> default_cal_spo2,
          file |-> save_cal_file(f, default_cal_r, default_cal_spo2)]

\* load_cal_file that substitutes the defaults without writing the file.
load_cal_file_NoPersist(f, r0, s0) ==
    CASE f.kind = "absent" ->
            [exc |-> "none", r |-> default_cal_r, s |-> default_cal_spo2, file |-> f]
      [] f.kind = "unparseable" ->
            [exc |-> "JSONDecodeError", r |-> r0, s |-> s0, file |-> f]
      [] f.kind = "json" /\ "R_TABLE" \notin f.keys ->
            [exc |-> "KeyError", r |-> r0, s |-> s0, file |-> f]
      [] f.kind = "json" /\ "R_TABLE" \in f.keys /\ "SPO2_TABLE" \notin f.keys ->
            [exc |-> "KeyError", r |-> JsonParseList(f.R_TABLE), s |-> s0, file |-> f]
      [] OTHER ->
            [exc |-> "none", r |-> JsonParseList(f.R_TABLE),
             s |-> JsonParseList(f.SPO2_TABLE), file |-> f]

\* _load_cal_file on the file f, the columns being r0 and s0: the exception
\* that leaves it ("none" when it returns), the two columns as they stand
\* afterwards, and the file.
load_cal_file(f, r0, s0) ==
    CASE f.kind = "absent" ->
            [exc |-> "none", r |-> default_cal_r, s |-> default_cal_spo2,
             file |-> save_cal_file(f, default_cal_r, default_cal_spo2)]
      [] f.kind = "unparseable" ->
            [exc |-> "JSONDecodeError", r |-> r0, s |-> s0, file |-> f]
      [] f.kind = "json" /\ "R_TABLE" \notin f.keys ->
            [exc |-> "KeyError", r |-> r0, s |-> s0, file |-> f]
      [] f.kind = "json" /\ "R_TABLE" \in f.keys /\ "SPO2_TABLE" \notin f.keys ->
            [exc |-> "KeyError", r |-> JsonParseList(f.R_TABLE), s |-> s0, file |-> f]
      [] OTHER ->
            [exc |-> "none", r |-> JsonParseList(f.R_TABLE),
             s |-> JsonParseList(f.SPO2_TABLE), file |-> f]

----------------------------------------------------------------------------
(* numpy.interp(x, xp, fp) for a scalar x = [n, d], as numpy's compiled   *)
(* arr_interp computes it; indices are 0-based as in numpy.               *)

KeyLt(x, a) == x.n < a * x.d

KeyGt(x, a) == x.n > a * x.d

KeyGe(x, a) == x.n >= a * x.d

KeyEq(x, a) == x.n = a * x.d

LIKELY_IN_CACHE_SIZE == 8

\* for (i = 1; i < len && key >= arr[i]; ++i); return i - 1;
RECURSIVE LinearSearch(_, _, _)
LinearSearch(x, arr, i) ==
    IF i < Len(arr) /\ KeyGe(x, arr[i + 1]) THEN LinearSearch(x, arr, i + 1)
    ELSE i - 1

\* while (imin < imax) {...} return imin - 1;
RECURSIVE Bisect(_, _, _, _)
Bisect(x, arr, imin, imax) ==
    IF imin < imax
    THEN LET imid == imin + ((imax - imin) \div 2)
         IN  IF KeyGe(x, arr[imid + 1]) THEN Bisect(x, arr, imid + 1, imax)
             ELSE Bisect(x, arr, imin, imid)
    ELSE imin - 1

binary_search_with_guess(x, arr, guess0) ==
    LET len == Len(arr)
        A(i) == arr[i + 1]
        g1 == IF guess0 > len - 3 THEN len - 3 ELSE guess0
        guess == IF g1 < 1 THEN 1 ELSE g1
    IN  IF KeyGt(x, A(len - 1)) THEN len
        ELSE IF KeyLt(x, A(0)) THEN -1
        ELSE IF len <= 4 THEN LinearSearch(x, arr, 1)
        ELSE IF KeyLt(x, A(guess))
             THEN IF KeyLt(x, A(guess - 1))
                  THEN Bisect(x, arr,
                              IF guess > LIKELY_IN_CACHE_SIZE
                                 /\ KeyGe(x, A(guess - LIKELY_IN_CACHE_SIZE))
                              THEN guess - LIKELY_IN_CACHE_SIZE ELSE 0,
                              guess - 1)
                  ELSE guess - 1
             ELSE IF KeyLt(x, A(guess + 1)) THEN guess
             ELSE IF KeyLt(x, A(guess + 2)) THEN guess + 1
             ELSE Bisect(x, arr, guess + 2,
                         IF guess < len - LIKELY_IN_CACHE_SIZE - 1
                            /\ KeyLt(x, A(guess + LIKELY_IN_CACHE_SIZE))
                         THEN guess + LIKELY_IN_CACHE_SIZE ELSE len)

\* slope * (x - dx[j]) + dy[j] with slope = (dy[j+1] - dy[j]) / (dx[j+1] - dx[j]).
\* A zero dx difference gives an infinite slope: the result is dy[j] when the
\* dy difference is zero too (numpy's NaN fallback), and otherwise an
\* infinity, written [n |-> +1 or -1, d |-> 0].
InterpSegment(x, xp, fp, j) ==
    LET dx0 == xp[j + 1]
        dx1 == xp[j + 2]
        dy0 == fp[j + 1]
        dy1 == fp[j + 2]
        off == x.n - dx0 * x.d
    IN  IF dx1 = dx0
        THEN IF dy1 = dy0 THEN RatOfInt(dy0)
             ELSE [n |-> IF (dy1 - dy0 > 0) = (off > 0) THEN 1 ELSE -1, d |-> 0]
        ELSE Rat((dy1 - dy0) * off + dy0 * (dx1 - dx0) * x.d, (dx1 - dx0) * x.d)

\* interp with the end segments extended linearly beyond the table's range.
interp_LinearExtension(x, xp, fp) ==
    LET lenxp == Len(xp)
        j == binary_search_with_guess(x, xp, 0)
        seg == IF j < 0 THEN 0 ELSE IF j > lenxp - 2 THEN lenxp - 2 ELSE j
    IN  IF lenxp = 0 THEN Raised("interp", "ValueError")
        ELSE IF Len(fp) # lenxp THEN Raised("interp", "ValueError")
        ELSE IF lenxp = 1 THEN Returned("interp", RatOfInt(fp[1]))
        ELSE Returned("interp", InterpSegment(x, xp, fp, seg))

interp(x, xp, fp) ==
    LET lenxp == Len(xp)
        j == binary_search_with_guess(x, xp, 0)
    IN  IF lenxp = 0 THEN Raised("interp", "ValueError")
        ELSE IF Len(fp) # lenxp THEN Raised("interp", "ValueError")
        ELSE IF lenxp = 1
             THEN Returned("interp",
                           RatOfInt(IF KeyLt(x, xp[1]) THEN fp[1]
                                    ELSE IF KeyGt(x, xp[1]) THEN fp[lenxp]
                                    ELSE fp[1]))
        ELSE IF j = -1 THEN Returned("interp", RatOfInt(fp[1]))
        ELSE IF j = lenxp THEN Returned("interp", RatOfInt(fp[lenxp]))
        ELSE IF j = lenxp - 1 THEN Returned("interp", RatOfInt(fp[j + 1]))
        ELSE IF KeyEq(x, xp[j + 1]) THEN Returned("interp", RatOfInt(fp[j + 1]))
        ELSE Returned("interp", InterpSegment(x, xp, fp, j))

\* np.average(self._r_value_history)
r_average == Rat(Sum(r_value_history), Len(r_value_history))

\* spo2_at with the two columns passed in each other's place.
spo2_at_Swapped(x) == interp(x, cal_spo2, cal_r)

\* np.interp(x, self._cal_r, self._cal_spo2)
spo2_at(x) == interp(x, cal_r, cal_spo2)

\* The spo2 property.
spo2 == spo2_at(r_average)

----------------------------------------------------------------------------
(* Program constants *)

\* self._r_value_history_max
r_value_history_max == 10

\* len(self._heart_rate_history)
heart_rate_history_len == 3

\* self.pk_prominence
pk_prominence == 1

\* self.pk_holdoff
pk_holdoff == 500

\* savgol_filter(..., window_length = 199, ...)
window_length == 199

\* the slice [25:self.max_readings - 25]
trim_margin == 25

\* def __init__(self, cal_file, max_readings = 80)
default_max_readings == 80

----------------------------------------------------------------------------
(* Bounds of the sample stream *)

\* No add_data once this many windows have been completed.
MaxWindows == 2

\* The capacities the engine is constructed with: one whose windows are
\* explored sample by sample, the default, the smallest one the smoothing
\* accepts, and one large enough for two peaks pk_holdoff apart after
\* trimming.
FastReadings == window_length

Capacities == {2, default_max_readings, FastReadings, 560}

SmallReadings == CHOOSE n \in Capacities : \A m \in Capacities : n <= m

LargeReadings == CHOOSE n \in Capacities : \A m \in Capacities : n >= m

----------------------------------------------------------------------------
(* The engine *)

Zeros(n) == [i \in 1..n |-> 0]

\* n float zeros.
FZeros(n) == [i \in 1..n |-> FZero]

\* stat.mean and the subtraction loop of _calc_r: the list of the x_i - mean.
\* stat.mean divides the exact sum by the length and rounds once.
Normalize(xs) ==
    LET mean == FDiv(FOfInt(Sum(xs)), FOfInt(Len(xs)))
    IN  [i \in 1..Len(xs) |-> FSub(FOfInt(xs[i]), mean)]

\* i ** 2 for the entries of a list.  Compiled by numba it is the product
\* i * i, rounded to the nearest float; interpreted it is pow of the C
\* library, which is off the exact square by less than one unit in the last
\* place, so gives one of the two floats around it.  Either way it is a
\* function of |i|: known holds what it has given so far, and the functions
\* below are what it may be on the values vs.
AbsValues(fs) == {FAbs(fs[i]) : i \in 1..Len(fs)}

SquareFunctions(vs, known) ==
    LET open == {v \in vs \ DOMAIN known : SquareDown(v) # SquareUp(v)}
    IN  {[v \in vs |-> IF v \in DOMAIN known THEN known[v]
                       ELSE IF v \in up THEN SquareUp(v) ELSE SquareDown(v)] :
            up \in SUBSET open}

\* total = total + i ** 2 for the entries lo..hi of the list, in order.
RECURSIVE SumSquaresRange(_, _, _, _, _)
SumSquaresRange(list_in, lo, hi, total, square) ==
    IF lo > hi THEN total
    ELSE IF lo = hi THEN FAdd(total, square[FAbs(list_in[lo])])
    ELSE LET mid == (lo + hi) \div 2
             first == SumSquaresRange(list_in, lo, mid, total, square)
         IN  Then(first, SumSquaresRange(list_in, mid + 1, hi, first, square))

\* calc_rms(list_in), with square what i ** 2 gives.
calc_rms(list_in, square) ==
    LET total == SumSquaresRange(list_in, 1, Len(list_in), FZero, square)
    IN  FSqrt(FDiv(total, FOfInt(Len(list_in))))

\* The windows of a channel under the sample stream explored below: zeros,
\* with 0 or 1 at the last position.
StreamWindows ==
    {[i \in 1..n |-> IF i = n THEN a ELSE 0] : n \in Capacities, a \in {0, 1}}

\* The normalised lists of these windows, and calc_rms of each under each
\* function that i ** 2 may be on it, worked out once.
StreamNorm == [xs \in StreamWindows |-> Normalize(xs)]

StreamKeys ==
    UNION {{<<xs, p>> : p \in SquareFunctions(AbsValues(StreamNorm[xs]), <<>>)} :
              xs \in StreamWindows}

StreamRms == [k \in StreamKeys |-> calc_rms(StreamNorm[k[1]], k[2])]

\* The list that the subtraction loop of _calc_r makes of the channel
\* window xs.
channel_norm(xs) == IF xs \in StreamWindows THEN StreamNorm[xs] ELSE Normalize(xs)

\* calc_rms(norm) for that list.
channel_rms(xs, square) ==
    IF xs \in StreamWindows
    THEN StreamRms[<<xs, [v \in AbsValues(StreamNorm[xs]) |-> square[v]]>>]
    ELSE calc_rms(Normalize(xs), square)

\* _calc_r: ZeroDivisionError at self._rms_red / self._rms_ir when the ir
\* channel is flat (float / float in Python), after both RMS fields are set.
calc_r(red, ir, hist, square) ==
    LET Pushed(new_rms_red, new_rms_ir, r) ==
            [exc |-> "none", rms_red |-> new_rms_red, rms_ir |-> new_rms_ir,
             r_value |-> r, history |-> Tail(Append(hist, r))]
        Divided(new_rms_red, new_rms_ir) ==
            IF FIsZero(new_rms_ir)
            THEN [exc |-> "ZeroDivisionError", rms_red |-> new_rms_red,
                  rms_ir |-> new_rms_ir, r_value |-> r_value, history |-> hist]
            ELSE Pushed(new_rms_red, new_rms_ir, FixOf(FDiv(new_rms_red, new_rms_ir)))
    IN  Divided(channel_rms(red, square), channel_rms(ir, square))

\* Length of savgol_filter(...)[25:max_readings - 25].
TrimmedLen(n) == Max(0, n - 2 * trim_margin)

IsFlat(xs) == \A i \in 1..Len(xs) : xs[i] = xs[1]

\* The index lists signal.find_peaks may report for the smoothed, trimmed red
\* channel.  The float64 least-squares smoothing is not reproduced: every
\* list the contract of find_peaks allows is a possible outcome (0-based
\* interior indices, strictly increasing, at least pk_holdoff apart), except
\* that a flat channel smooths to a flat sequence, which has no peak.
\* Of these lists the model takes those over the first and the last interior
\* index.
PeakSites(len) == {i \in 1..(len - 2) : i = 1 \/ i = len - 2}

\* How many peaks pk_holdoff apart fit into the interior.
MaxPeaksFit(len) == IF len < 3 THEN 0 ELSE (len - 3) \div pk_holdoff + 1

PeakLists(red, len) ==
    IF IsFlat(red) THEN {<<>>}
    ELSE {p \in SeqsUpTo(PeakSites(len), MaxPeaksFit(len)) :
            \A i \in 1..(Len(p) - 1) : p[i + 1] - p[i] >= pk_holdoff}

\* _detect_peaks: savgol_filter raises ValueError when the window is longer
\* than the data (mode = 'interp').
detect_peaks(red, pk) ==
    IF Len(red) < window_length
    THEN [exc |-> "ValueError", peaks |-> peaks]
    ELSE [exc |-> "none", peaks |-> pk]

\* The loop of _calc_hr over consecutive peaks: raw_time is indexed with the
\* peak indices as find_peaks reports them.
PeakTimes(pk, time) ==
    IF Len(pk) > 1
    THEN [i \in 1..(Len(pk) - 1) |-> time[pk[i + 1] + 1] - time[pk[i] + 1]]
    ELSE <<>>

\* rate = freq * 1000 * 60 with freq = 1 / (sum(times) / len(times)), numpy
\* floats: a zero mean delta gives an infinite freq and rate.
hr_rate(times) ==
    LET mean == FDiv(FOfInt(Sum(times)), FOfInt(Len(times)))
    IN  IF FIsZero(mean) THEN FInf
        ELSE FMul(FMul(FDiv(FOfInt(1), mean), FOfInt(1000)), FOfInt(60))

RECURSIVE FExactSum(_)
FExactSum(fs) == IF fs = <<>> THEN FZero ELSE FExactAdd(Head(fs), FExactSum(Tail(fs)))

\* stat.mean of a list of floats: the exact sum divided by the length and
\* rounded once; infinite when the list holds the infinity.
stat_mean(fs) ==
    LET total == FExactSum(fs)
    IN  IF \E i \in 1..Len(fs) : fs[i] = FInf THEN FInf
        ELSE FQuotient(total.s, total.m, total.e, BigOfInt(Len(fs)))

\* _calc_hr after _detect_peaks returned pk.  The rate is pushed as it is,
\* then rounded.  round() refuses an infinity with OverflowError, that of
\* the rate as well as that of a mean over a history holding one.
calc_hr(pk, time, hist) ==
    LET times == PeakTimes(pk, time)
        Rounded(rate, new_hist, avg) ==
            IF rate = FInf \/ avg = FInf
            THEN [exc |-> "OverflowError", inst |-> heart_rate_inst,
                  avg |-> heart_rate_avg, history |-> new_hist]
            ELSE [exc |-> "none", inst |-> FRoundInt(rate), avg |-> FRoundInt(avg),
                  history |-> new_hist]
        Averaged(rate, new_hist) == Rounded(rate, new_hist, stat_mean(new_hist))
        Pushed(rate) == Averaged(rate, Tail(Append(hist, rate)))
    IN  IF Len(times) = 0
        THEN [exc |-> "none", inst |-> 0, avg |-> 0, history |-> hist]
        ELSE Pushed(hr_rate(times))

\* math.floor((n / time_range) * 1000) for a nonzero time_range.
sps_value(n, time_range) ==
    FFloor(FMul(FDiv(FOfInt(n), FOfInt(time_range)), FOfInt(1000)))

\* _calc_sps: a zero time range gives an infinite quotient, which
\* math.floor refuses with OverflowError.
calc_sps(time) ==
    LET time_range == time[Len(time)] - time[1]
    IN  IF time_range = 0
        THEN [exc |-> "OverflowError", sps |-> samples_per_second]
        ELSE [exc |-> "none", sps |-> sps_value(Len(time), time_range)]

----------------------------------------------------------------------------
(* Operations *)

\* SPO2(cal_file, n): __init__.  An exception of _load_cal_file leaves the
\* constructor, and no object exists.
Construct(n) ==
    LET ld == load_cal_file(file, default_cal_r, default_cal_spo2)
    IN  /\ phase = "new"
        /\ file' = ld.file
        /\ cal_r' = ld.r
        /\ cal_spo2' = ld.s
        /\ IF ld.exc # "none"
           THEN /\ phase' = "failed"
                /\ ret' = Raised("init", ld.exc)
                /\ UNCHANGED <<max_readings, engineVars>>
           ELSE /\ phase' = "ready"
                /\ ret' = Returned("init", None)
                /\ max_readings' = n
                /\ peaks' = <<>>
                /\ rms_red' = FZero
                /\ rms_ir' = FZero
                /\ r_value' = 0
                /\ heart_rate_inst' = 0
                /\ heart_rate_avg' = 0
                /\ r_value_history' = Zeros(r_value_history_max)
                /\ raw_red' = Zeros(n)
                /\ raw_ir' = Zeros(n)
                /\ raw_time' = Zeros(n)
                /\ heart_rate_history' = FZeros(heart_rate_history_len)
                /\ data_index' = 0
                /\ UNCHANGED samples_per_second
        /\ UNCHANGED <<writable, squares, clock, calls, windows>>

\* reset that keeps the R history.
reset_KeepsHistory ==
    /\ phase = "ready"
    /\ peaks' = <<>>
    /\ rms_red' = FZero
    /\ rms_ir' = FZero
    /\ r_value' = 0
    /\ heart_rate_inst' = 0
    /\ heart_rate_avg' = 0
    /\ raw_red' = Zeros(max_readings)
    /\ raw_ir' = Zeros(max_readings)
    /\ raw_time' = Zeros(max_readings)
    /\ heart_rate_history' = FZeros(heart_rate_history_len)
    /\ data_index' = 0
    /\ clock' = 0
    /\ calls' = 0
    /\ ret' = Returned("reset", None)
    /\ UNCHANGED <<phase, file, writable, squares, max_readings, calVars, samples_per_second,
                   windows, r_value_history>>

\* reset().  The caller restarts its clock with it.
reset ==
    /\ phase = "ready"
    /\ peaks' = <<>>
    /\ rms_red' = FZero
    /\ rms_ir' = FZero
    /\ r_value' = 0
    /\ heart_rate_inst' = 0
    /\ heart_rate_avg' = 0
    /\ r_value_history' = Zeros(r_value_history_max)
    /\ raw_red' = Zeros(max_readings)
    /\ raw_ir' = Zeros(max_readings)
    /\ raw_time' = Zeros(max_readings)
    /\ heart_rate_history' = FZeros(heart_rate_history_len)
    /\ data_index' = 0
    /\ clock' = 0
    /\ calls' = 0
    /\ ret' = Returned("reset", None)
    /\ UNCHANGED <<phase, file, writable, squares, max_readings, calVars, samples_per_second, windows>>

\* add_data((red, ir), clock + dt), with pk what find_peaks reports should the
\* window complete and the smoothing succeed.
add_data(red, ir, dt, pk) ==
    LET time == clock + dt
        new_red == [raw_red EXCEPT ![data_index + 1] = red]
        new_ir == [raw_ir EXCEPT ![data_index + 1] = ir]
        new_time == [raw_time EXCEPT ![data_index + 1] = time]
        new_index == (data_index + 1) % max_readings
        dp == detect_peaks(new_red, pk)
        Completed(cr, hr, sp) ==
            /\ windows' = windows + 1
            /\ rms_red' = cr.rms_red
            /\ rms_ir' = cr.rms_ir
            /\ r_value' = cr.r_value
            /\ r_value_history' = cr.history
            /\ IF cr.exc # "none"
               THEN /\ ret' = Raised("add_data", cr.exc)
                    /\ UNCHANGED <<peaks, heart_rate_inst, heart_rate_avg,
                                   heart_rate_history, samples_per_second>>
               ELSE /\ peaks' = dp.peaks
                    /\ IF dp.exc # "none"
                       THEN /\ ret' = Raised("add_data", dp.exc)
                            /\ UNCHANGED <<heart_rate_inst, heart_rate_avg,
                                           heart_rate_history, samples_per_second>>
                       ELSE /\ heart_rate_history' = hr.history
                            /\ heart_rate_inst' = hr.inst
                            /\ heart_rate_avg' = hr.avg
                            /\ IF hr.exc # "none"
                               THEN /\ ret' = Raised("add_data", hr.exc)
                                    /\ UNCHANGED samples_per_second
                               ELSE /\ samples_per_second' = sp.sps
                                    /\ ret' = IF sp.exc # "none"
                                              THEN Raised("add_data", sp.exc)
                                              ELSE Returned("add_data", True)
    IN  /\ phase = "ready"
        /\ windows < MaxWindows
        /\ raw_red' = new_red
        /\ raw_ir' = new_ir
        /\ raw_time' = new_time
        /\ data_index' = new_index
        /\ clock' = time
        /\ calls' = calls + 1
        /\ IF new_index # 0
           THEN /\ ret' = Returned("add_data", False)
                /\ UNCHANGED <<rms_red, rms_ir, r_value, r_value_history, peaks,
                               heart_rate_inst, heart_rate_avg, heart_rate_history,
                               samples_per_second, windows, squares>>
           ELSE \E square \in SquareFunctions(AbsValues(channel_norm(new_red))
                                                  \cup AbsValues(channel_norm(new_ir)),
                                              squares) :
                    /\ squares' = square @@ squares
                    /\ Completed(calc_r(new_red, new_ir, r_value_history, square),
                                 calc_hr(dp.peaks, new_time, heart_rate_history),
                                 calc_sps(new_time))
        /\ UNCHANGED <<phase, file, writable, max_readings, calVars>>

\* The samples the sensor may deliver at the current position of the window:
\* the baseline sample 0 on both channels, and at the last position of the
\* window 0 or 1 on either channel.
LastPosition == data_index = max_readings - 1

SampleValues == IF LastPosition THEN {0, 1} ELSE {0}

\* The milliseconds between the previous sample and this one.  Normally 1.
\* With the small capacity the last sample of a window may also come in the
\* same millisecond as the one before.  With the fast capacity the samples
\* after the first come either all 1 ms apart or all in the same millisecond
\* (a sensor faster than the millisecond clock of the caller), decided at the
\* second sample after construction or reset.  With the large capacity the
\* sensor may stall for 50 ms once, 27 samples before the end of the last
\* window explored.
PreviousStep ==
    raw_time[((data_index + max_readings - 1) % max_readings) + 1]
        - raw_time[((data_index + max_readings - 2) % max_readings) + 1]

ClockSteps ==
    IF max_readings = SmallReadings
    THEN IF LastPosition THEN {0, 1} ELSE {1}
    ELSE IF max_readings = FastReadings
    THEN IF calls = 0 THEN {1} ELSE IF calls = 1 THEN {0, 1} ELSE {PreviousStep}
    ELSE IF max_readings = LargeReadings /\ windows = MaxWindows - 1
            /\ data_index = max_readings - 27
    THEN {1, 50}
    ELSE {1}

\* The peak lists to consider for this call: those of a completed window that
\* is long enough to be smoothed, and otherwise none.
PeakChoices(red) ==
    IF data_index + 1 = max_readings /\ max_readings >= window_length
    THEN PeakLists([raw_red EXCEPT ![data_index + 1] = red], TrimmedLen(max_readings))
    ELSE {<<>>}

AddData ==
    \E red \in SampleValues, ir \in SampleValues, dt \in ClockSteps :
        \E pk \in PeakChoices(red) : add_data(red, ir, dt, pk)

\* The R setter assigning the column before it validates it.
cal_table_r_set_AssignFirst(data) ==
    /\ phase = "ready"
    /\ cal_r' = data
    /\ ret' = IF ~(\E i \in 1..Len(data) : data[i] < 0)
              THEN [Returned("cal_table_r", None) EXCEPT !.data = data]
              ELSE [Raised("cal_table_r", "ValueError") EXCEPT !.data = data]
    /\ UNCHANGED <<phase, file, writable, squares, max_readings, cal_spo2, engineVars,
                   clock, calls, windows>>

\* cal_table_r = data
cal_table_r_set(data) ==
    /\ phase = "ready"
    /\ IF ~(\E i \in 1..Len(data) : data[i] < 0)
       THEN /\ cal_r' = data
            /\ ret' = [Returned("cal_table_r", None) EXCEPT !.data = data]
       ELSE /\ cal_r' = cal_r
            /\ ret' = [Raised("cal_table_r", "ValueError") EXCEPT !.data = data]
    /\ UNCHANGED <<phase, file, writable, squares, max_readings, cal_spo2, engineVars,
                   clock, calls, windows>>

\* The SpO2 setter validating int(i), the truncation toward zero.
cal_table_spo2_set_Trunc(data) ==
    /\ phase = "ready"
    /\ IF ~(\E i \in 1..Len(data) : Trunc(data[i]) \notin 0..100)
       THEN /\ cal_spo2' = data
            /\ ret' = [Returned("cal_table_spo2", None) EXCEPT !.data = data]
       ELSE /\ cal_spo2' = cal_spo2
            /\ ret' = [Raised("cal_table_spo2", "ValueError") EXCEPT !.data = data]
    /\ UNCHANGED <<phase, file, writable, squares, max_readings, cal_r, engineVars,
                   clock, calls, windows>>

\* cal_table_spo2 = data
cal_table_spo2_set(data) ==
    /\ phase = "ready"
    /\ IF ~(\E i \in 1..Len(data) : Floor(data[i]) \notin 0..100)
       THEN /\ cal_spo2' = data
            /\ ret' = [Returned("cal_table_spo2", None) EXCEPT !.data = data]
       ELSE /\ cal_spo2' = cal_spo2
            /\ ret' = [Raised("cal_table_spo2", "ValueError") EXCEPT !.data = data]
    /\ UNCHANGED <<phase, file, writable, squares, max_readings, cal_r, engineVars,
                   clock, calls, windows>>

\* save_cal letting the PermissionError through.
save_cal_Raises ==
    /\ phase = "ready"
    /\ file' = save_cal_file(file, cal_r, cal_spo2)
    /\ ret' = IF writable THEN Returned("save_cal", None)
              ELSE Raised("save_cal", "PermissionError")
    /\ UNCHANGED <<phase, writable, squares, max_readings, calVars, engineVars, clock, calls, windows>>

\* save_cal()
save_cal ==
    /\ phase = "ready"
    /\ file' = save_cal_file(file, cal_r, cal_spo2)
    /\ ret' = Returned("save_cal", None)
    /\ UNCHANGED <<phase, writable, squares, max_readings, calVars, engineVars, clock, calls, windows>>

\* MainWindow.read_calb_table.  A row of the table widget is a pair of cells
\* [r, s] for the columns 0 and 1; a cell has an item with a text, a sequence
\* of characters, or it has none.

\* The characters of the texts, in the order in which texts are compared.
Characters == <<"-", ".", "0", "1", "2", "3", "4", "5", "6", "7", "8", "9">>

CharRank(c) == CHOOSE i \in 1..Len(Characters) : Characters[i] = c

IsDigit(c) == c \notin {"-", "."}

DigitValue(c) == CharRank(c) - CharRank("0")

\* QTableWidgetItem.__lt__: the texts compared character by character, a
\* proper prefix before its extensions.
RECURSIVE TextLess(_, _)
TextLess(a, b) ==
    IF b = <<>> THEN FALSE
    ELSE IF a = <<>> THEN TRUE
    ELSE IF Head(a) # Head(b) THEN CharRank(Head(a)) < CharRank(Head(b))
    ELSE TextLess(Tail(a), Tail(b))

\* The whole number a sequence of digits reads.
RECURSIVE DigitsValue(_)
DigitsValue(ds) ==
    IF ds = <<>> THEN 0
    ELSE 10 * DigitsValue(SubSeq(ds, 1, Len(ds) - 1)) + DigitValue(ds[Len(ds)])

AllDigits(t) == \A i \in 1..Len(t) : IsDigit(t[i])

\* int(text): an optional sign and one digit or more; ok is FALSE where int
\* raises ValueError.
ParseInt(t) ==
    LET neg == t # <<>> /\ Head(t) = "-"
        ds == IF neg THEN Tail(t) ELSE t
    IN  IF ds # <<>> /\ AllDigits(ds)
        THEN [ok |-> TRUE, v |-> (IF neg THEN -1 ELSE 1) * DigitsValue(ds) * Unit]
        ELSE [ok |-> FALSE, v |-> 0]

\* float(text): an optional sign, digits with at most one point among them
\* and one digit at least; the value as a fixed-point number.
ParseFloat(t) ==
    LET neg == t # <<>> /\ Head(t) = "-"
        body == IF neg THEN Tail(t) ELSE t
        points == {i \in 1..Len(body) : body[i] = "."}
        point == IF points = {} THEN Len(body) + 1 ELSE CHOOSE i \in points : TRUE
        whole == SubSeq(body, 1, point - 1)
        frac == SubSeq(body, point + 1, Len(body))
        scale == 10 ^ Len(frac)
        up == DigitsValue(whole) * Unit + (DigitsValue(frac) * Unit) \div scale
        down == -(DigitsValue(whole) * Unit)
                    - ((DigitsValue(frac) * Unit + scale - 1) \div scale)
    IN  IF Cardinality(points) <= 1 /\ AllDigits(whole) /\ AllDigits(frac)
           /\ Len(whole) + Len(frac) > 0 /\ "-" \notin {body[i] : i \in 1..Len(body)}
        THEN [ok |-> TRUE, v |-> IF neg THEN down ELSE up]
        ELSE [ok |-> FALSE, v |-> 0]

\* Whether sortItems(0) puts row a before row b: the rows with an item in
\* column 0 ascending by its text, the rows without one after them.
RowBefore(a, b) == a.r.item /\ (~b.r.item \/ TextLess(a.r.text, b.r.text))

\* The sort is stable: a row goes behind the rows it is not before.
RECURSIVE InsertRow(_, _)
InsertRow(row, sorted) ==
    IF sorted = <<>> THEN <<row>>
    ELSE IF RowBefore(row, Head(sorted)) THEN <<row>> \o sorted
    ELSE <<Head(sorted)>> \o InsertRow(row, Tail(sorted))

RECURSIVE sortItems(_)
sortItems(rows) ==
    IF rows = <<>> THEN <<>>
    ELSE InsertRow(rows[Len(rows)], sortItems(SubSeq(rows, 1, Len(rows) - 1)))

\* The loop over the rows: the try block appends the float of column 0 and
\* then the int of column 1, and is left at the first cell that has no item
\* or whose text does not parse.
RowsRValues(rows) ==
    LET kept == SelectSeq(rows, LAMBDA w : w.r.item /\ ParseFloat(w.r.text).ok)
    IN  [i \in 1..Len(kept) |-> ParseFloat(kept[i].r.text).v]

RowsSpo2Values(rows) ==
    LET kept == SelectSeq(rows, LAMBDA w : /\ w.r.item /\ ParseFloat(w.r.text).ok
                                          /\ w.s.item /\ ParseInt(w.s.text).ok)
    IN  [i \in 1..Len(kept) |-> ParseInt(kept[i].s.text).v]

\* update_calb: draw_r_curve plots the R column against the SpO2 column, and
\* pyqtgraph refuses x and y of different lengths with an Exception ("X and
\* Y arrays must be the same shape").
update_calb(x, y) == IF Len(x) = Len(y) THEN "none" ELSE "Exception"

\* The two setters in turn, then update_calb, then save_cal; an exception of
\* one of them leaves the method at once.
read_calb_table(rows) ==
    LET sorted == sortItems(rows)
        r_val == RowsRValues(sorted)
        spo2_val == RowsSpo2Values(sorted)
        r_accepted == ~(\E i \in 1..Len(r_val) : r_val[i] < 0)
        spo2_accepted ==
            ~(\E i \in 1..Len(spo2_val) : Floor(spo2_val[i]) \notin 0..100)
        drawn == update_calb(r_val, spo2_val)
    IN  /\ phase = "ready"
        /\ cal_r' = IF r_accepted THEN r_val ELSE cal_r
        /\ cal_spo2' = IF r_accepted /\ spo2_accepted THEN spo2_val ELSE cal_spo2
        /\ file' = IF r_accepted /\ spo2_accepted /\ drawn = "none"
                   THEN save_cal_file(file, r_val, spo2_val) ELSE file
        /\ ret' = IF ~(r_accepted /\ spo2_accepted)
                  THEN Raised("read_calb_table", "ValueError")
                  ELSE IF drawn # "none" THEN Raised("read_calb_table", drawn)
                  ELSE Returned("read_calb_table", None)
        /\ UNCHANGED <<phase, writable, squares, max_readings, engineVars, clock, calls, windows>>

\* Reading the spo2 property.
ReadSpo2 ==
    /\ phase = "ready"
    /\ ret' = [spo2 EXCEPT !.op = "spo2"]
    /\ UNCHANGED <<phase, file, writable, squares, max_readings, calVars, engineVars,
                   clock, calls, windows>>

\* The interpolation of the spo2 property for an x of the caller's choice.
Interpolate(x) ==
    /\ phase = "ready"
    /\ ret' = [spo2_at(x) EXCEPT !.arg = x]
    /\ UNCHANGED <<phase, file, writable, squares, max_readings, calVars, engineVars,
                   clock, calls, windows>>

----------------------------------------------------------------------------
(* Inputs *)

\* Values of the lists given to the R setter: -0.1 and 1.0.
RValues == {-(Unit \div 10), Unit}

\* Values of the lists given to the SpO2 setter: -0.5, 90, 100.5, 101.
Spo2Values == {-(Unit \div 2), 90 * Unit, 100 * Unit + Unit \div 2, 101 * Unit}

RLists == SeqsUpTo(RValues, MaxTableLen)

Spo2Lists == SeqsUpTo(Spo2Values, MaxTableLen)

\* Values of the lists of a table that is saved: 0.85 and 1.0, and 97.
SavedRLists == SeqsUpTo({(85 * Unit) \div 100, Unit}, MaxTableLen)

SavedSpo2Lists == SeqsUpTo({97 * Unit}, MaxTableLen)

\* The cells of the table widget: column 0 has no item, or one that reads
\* nothing, 2 or 10; column 1 has an item that reads nothing, 90 or 101.
NoItem == [item |-> FALSE, text |-> <<>>]

Cell(t) == [item |-> TRUE, text |-> t]

RCells == {NoItem, Cell(<<>>), Cell(<<"2">>), Cell(<<"1", "0">>)}

Spo2Cells == {Cell(<<>>), Cell(<<"9", "0">>), Cell(<<"1", "0", "1">>)}

WidgetRows == SeqsUpTo([r : RCells, s : Spo2Cells], MaxTableLen)

BothKeys == {"R_TABLE", "SPO2_TABLE"}

\* The calibration files the program may find: none, one that is not JSON, one
\* lacking either key, a well-formed two-point table, a table whose values
\* the setters would refuse, and a table with columns of unequal length.
CalFiles ==
    {AbsentFile, UnparseableFile,
     JsonFile({"SPO2_TABLE"}, <<>>, <<100 * Unit, 90 * Unit>>),
     JsonFile({"R_TABLE"}, <<Unit \div 2, Unit>>, <<>>),
     JsonFile(BothKeys, <<Unit \div 2, Unit>>, <<100 * Unit, 90 * Unit>>),
     JsonFile(BothKeys, <<-(Unit \div 10), Unit>>, <<101 * Unit, 90 * Unit>>),
     JsonFile(BothKeys, <<Unit>>, <<100 * Unit, 90 * Unit>>)}

\* The tables of the interpolation specification: the R values 0.5, 1.0, 2.0
\* and the SpO2 values 90, 95, 100 in every order, and longer tables, sorted
\* and not, for the bisection of numpy's search.
InterpRValues == {Unit \div 2, Unit, 2 * Unit}

InterpSpo2Values == {90 * Unit, 95 * Unit, 100 * Unit}

LongTables ==
    {<<default_cal_r, default_cal_spo2>>,
     <<[i \in 1..6 |-> i * (Unit \div 2)], [i \in 1..6 |-> (100 - 2 * i) * Unit]>>,
     <<<<Unit, Unit \div 2, 2 * Unit, 3 * Unit, (5 * Unit) \div 2>>,
       <<100 * Unit, 98 * Unit, 96 * Unit, 94 * Unit, 92 * Unit>>>>,
     <<<<Unit \div 2, Unit, Unit, Unit, 2 * Unit>>,
       <<100 * Unit, 98 * Unit, 96 * Unit, 94 * Unit, 92 * Unit>>>>}

InterpTables ==
    LongTables \cup
    {<<r, s>> : r \in SeqsUpTo(InterpRValues, MaxInterpLen),
                s \in SeqsUpTo(InterpSpo2Values, MaxInterpLen)}

InterpFiles ==
    {JsonFile(BothKeys, t[1], t[2]) : t \in {u \in InterpTables : Len(u[1]) = Len(u[2])}}

\* The x to interpolate at: every stored R value, a quarter below and above
\* it, and the midpoint to the next multiple of a half.
Queries ==
    {RatOfInt(0)} \cup
    UNION {{RatOfInt(cal_r[i] - Unit \div 4), RatOfInt(cal_r[i]),
            RatOfInt(cal_r[i] + Unit \div 4), Rat(4 * cal_r[i] + Unit, 4)} :
           i \in 1..Len(cal_r)}

----------------------------------------------------------------------------
(* Specifications *)

Fresh ==
    /\ phase = "new"
    /\ squares = <<>>
    /\ max_readings = 0
    /\ cal_r = <<>>
    /\ cal_spo2 = <<>>
    /\ data_index = 0
    /\ raw_red = <<>>
    /\ raw_ir = <<>>
    /\ raw_time = <<>>
    /\ rms_red = FZero
    /\ rms_ir = FZero
    /\ r_value = 0
    /\ r_value_history = <<>>
    /\ heart_rate_inst = 0
    /\ heart_rate_avg = 0
    /\ heart_rate_history = <<>>
    /\ peaks = <<>>
    /\ samples_per_second = 0
    /\ clock = 0
    /\ calls = 0
    /\ windows = 0
    /\ ret = Returned("start", None)

\* The calibration operations on an engine of the small capacity.
InitCal == Fresh /\ file \in CalFiles /\ writable \in BOOLEAN

NextCal ==
    \/ Construct(SmallReadings)
    \/ \E data \in RLists : cal_table_r_set(data)
    \/ \E data \in Spo2Lists : cal_table_spo2_set(data)
    \/ ReadSpo2

SpecCal == InitCal /\ [][NextCal]_vars

\* The calibration file: the table is edited, saved and loaded again.
NextFile ==
    \/ Construct(SmallReadings)
    \/ \E data \in SavedRLists : cal_table_r_set(data)
    \/ \E data \in SavedSpo2Lists : cal_table_spo2_set(data)
    \/ save_cal

SpecFile == InitCal /\ [][NextFile]_vars

\* The calibration tab: the table is edited in the widget and read back.
InitEdit ==
    /\ Fresh
    /\ file \in {AbsentFile,
                  JsonFile(BothKeys, <<Unit \div 2, Unit>>, <<100 * Unit, 90 * Unit>>)}
    /\ writable \in BOOLEAN

NextEdit ==
    \/ Construct(SmallReadings)
    \/ \E rows \in WidgetRows : read_calb_table(rows)
    \/ ReadSpo2

SpecEdit == InitEdit /\ [][NextEdit]_vars

\* The sample stream, for every capacity, with the table the file gives.
InitEng == Fresh /\ file = AbsentFile /\ writable = TRUE

NextEng ==
    \/ \E n \in Capacities : Construct(n)
    \/ AddData
    \/ reset
    \/ ReadSpo2

SpecEng == InitEng /\ [][NextEng]_vars

\* The interpolation, on the table a well-formed file gives.
InitInterp == Fresh /\ file \in InterpFiles /\ writable = TRUE

NextInterp ==
    \/ Construct(SmallReadings)
    \/ \E x \in Queries : Interpolate(x)

SpecInterp == InitInterp /\ [][NextInterp]_vars

\* The whole program.
Init == Fresh /\ file \in CalFiles \cup InterpFiles /\ writable \in BOOLEAN

Next == NextCal \/ NextFile \/ NextEdit \/ NextEng \/ NextInterp

Spec == Init /\ [][Next]_vars

----------------------------------------------------------------------------
(* Properties *)

\* The smallest and the largest stored R value, and the position of the latter.
StoredMinR == CHOOSE v \in {cal_r[i] : i \in 1..Len(cal_r)} :
                  \A i \in 1..Len(cal_r) : v <= cal_r[i]

StoredMaxR == CHOOSE v \in {cal_r[i] : i \in 1..Len(cal_r)} :
                  \A i \in 1..Len(cal_r) : v >= cal_r[i]

Ascending(xs) == \A i \in 1..(Len(xs) - 1) : xs[i] <= xs[i + 1]

StrictlyAscending(xs) == \A i \in 1..(Len(xs) - 1) : xs[i] < xs[i + 1]

\* add_data has just completed a window.
WindowCompleted == ret.op = "add_data" /\ data_index = 0

\* C1: counting the add_data calls from construction or reset, the k-th call
\* returns True exactly when k is a multiple of the capacity N and returns
\* False on every other call.
C1_ReadyExactlyEveryNth ==
    ret.op = "add_data" =>
        /\ ret.exc = "none"
        /\ (ret.val = True) <=> (calls % max_readings = 0)

\* C2: a capacity N that does not exceed the smoothing window length (199)
\* plus twice the trim margin (25) is rejected at construction: no engine with
\* such an N exists, and none fails in the smoothing when a window completes.
C2_SmallCapacityRejected ==
    /\ phase = "ready" => max_readings > window_length + 2 * trim_margin
    /\ ~(ret.op = "add_data" /\ ret.exc = "ValueError")

\* C3: when a completed window has a flat infrared channel, add_data does not
\* raise, and the spo2 property then evaluates to the SpO2 value stored at the
\* table's maximum R.
C3_FlatInfraredDoesNotRaise ==
    (WindowCompleted /\ IsFlat(raw_ir)) =>
        /\ ret.exc = "none"
        /\ spo2.exc = "none"
        /\ \E i \in 1..Len(cal_r) :
              cal_r[i] = StoredMaxR /\ spo2.val = RatOfInt(cal_spo2[i])

\* C4: the R setter, given a list with a negative value, fails with a
\* validation error and leaves both columns as they were; given a list with
\* no negative value it returns and the R column is the list.
C4_RSetterRejectsNegatives ==
    [][ret'.op = "cal_table_r" =>
          IF \E i \in 1..Len(ret'.data) : ret'.data[i] < 0
          THEN ret'.exc = "ValueError" /\ cal_r' = cal_r /\ cal_spo2' = cal_spo2
          ELSE ret'.exc = "none" /\ cal_r' = ret'.data /\ cal_spo2' = cal_spo2]_vars

\* A list with a negative value has been refused while a table was stored.
C4_Witness ==
    /\ ret.op = "cal_table_r"
    /\ ret.exc = "ValueError"
    /\ ret.data = <<-(Unit \div 10), Unit>>
    /\ Len(cal_r) > 0

\* C5 as the specification states it: the SpO2 setter fails exactly when some
\* value, truncated toward zero, lies outside [0,100], so that a value between
\* -1 and 0 is accepted.
C5_Spo2SetterTruncates ==
    [][ret'.op = "cal_table_spo2" =>
          (ret'.exc = "ValueError"
             <=> \E i \in 1..Len(ret'.data) : Trunc(ret'.data[i]) \notin 0..100)]_vars

\* C5: the SpO2 setter fails with a validation error, leaving both columns as
\* they were, exactly when some value is below 0 or is 101 or more (its floor
\* lies outside [0,100]); otherwise it returns and the SpO2 column is the list.
\* A value between -1 and 0 is refused, one between 100 and 101 is accepted.
C5_Spo2SetterFloors ==
    [][ret'.op = "cal_table_spo2" =>
          IF \E i \in 1..Len(ret'.data) :
                ret'.data[i] < 0 \/ ret'.data[i] >= 101 * Unit
          THEN ret'.exc = "ValueError" /\ cal_spo2' = cal_spo2 /\ cal_r' = cal_r
          ELSE ret'.exc = "none" /\ cal_spo2' = ret'.data /\ cal_r' = cal_r]_vars

\* The list [-0.5] has been refused.
C5_Witness ==
    /\ ret.op = "cal_table_spo2"
    /\ ret.exc = "ValueError"
    /\ ret.data = <<-(Unit \div 2)>>

\* C6: in every state of a constructed engine every stored R value is at least
\* 0 and every stored SpO2 value lies in [0,100].
C6_TableInRange ==
    phase = "ready" =>
        /\ \A i \in 1..Len(cal_r) : cal_r[i] >= 0
        /\ \A i \in 1..Len(cal_spo2) : cal_spo2[i] >= 0 /\ cal_spo2[i] <= 100 * Unit

\* C7 as the specification states it: for a table of at least 2 points, in
\* whatever order they are stored, interpolating below the smallest stored R
\* gives the SpO2 value paired with it, and above the largest stored R the
\* SpO2 value paired with that.
C7_FlatExtrapolationAnyOrder ==
    (ret.op = "interp" /\ Len(cal_r) >= 2 /\ Len(cal_spo2) = Len(cal_r)) =>
        /\ KeyLt(ret.arg, StoredMinR) =>
              /\ ret.exc = "none"
              /\ \E i \in 1..Len(cal_r) :
                    cal_r[i] = StoredMinR /\ ret.val = RatOfInt(cal_spo2[i])
        /\ KeyGt(ret.arg, StoredMaxR) =>
              /\ ret.exc = "none"
              /\ \E i \in 1..Len(cal_r) :
                    cal_r[i] = StoredMaxR /\ ret.val = RatOfInt(cal_spo2[i])

\* C7: for a table of at least 2 points stored in ascending order of R,
\* interpolating below the smallest stored R gives the SpO2 value of the first
\* point, and above the largest stored R the SpO2 value of the last point.
C7_FlatExtrapolationAscending ==
    (ret.op = "interp" /\ Len(cal_r) >= 2 /\ Len(cal_spo2) = Len(cal_r)
       /\ Ascending(cal_r)) =>
        /\ KeyLt(ret.arg, cal_r[1]) =>
              ret.exc = "none" /\ ret.val = RatOfInt(cal_spo2[1])
        /\ KeyGt(ret.arg, cal_r[Len(cal_r)]) =>
              ret.exc = "none" /\ ret.val = RatOfInt(cal_spo2[Len(cal_spo2)])

\* The table (0.5, 100), (1.0, 95), (2.0, 90) has been interpolated at 2.25.
C7_Witness ==
    /\ ret.op = "interp"
    /\ cal_r = <<Unit \div 2, Unit, 2 * Unit>>
    /\ cal_spo2 = <<100 * Unit, 95 * Unit, 90 * Unit>>
    /\ ret.arg = RatOfInt(2 * Unit + Unit \div 4)
    /\ ret.val = RatOfInt(90 * Unit)

\* C8 as the specification states it: interpolating at the R of any stored
\* control point gives exactly the SpO2 of that point.
C8_ControlPointExactAnyTable ==
    (ret.op = "interp" /\ Len(cal_spo2) = Len(cal_r)) =>
        \A i \in 1..Len(cal_r) :
            KeyEq(ret.arg, cal_r[i]) =>
                ret.exc = "none" /\ ret.val = RatOfInt(cal_spo2[i])

\* C8: for a table whose R values are stored in strictly ascending order,
\* interpolating at the R of any stored control point gives exactly the SpO2
\* of that point.
C8_ControlPointExactAscending ==
    (ret.op = "interp" /\ Len(cal_spo2) = Len(cal_r) /\ StrictlyAscending(cal_r)) =>
        \A i \in 1..Len(cal_r) :
            KeyEq(ret.arg, cal_r[i]) =>
                ret.exc = "none" /\ ret.val = RatOfInt(cal_spo2[i])

\* The table (0.5, 100), (1.0, 95), (2.0, 90) has been interpolated at 1.0.
C8_Witness ==
    /\ ret.op = "interp"
    /\ cal_r = <<Unit \div 2, Unit, 2 * Unit>>
    /\ cal_spo2 = <<100 * Unit, 95 * Unit, 90 * Unit>>
    /\ ret.arg = RatOfInt(Unit)
    /\ ret.val = RatOfInt(95 * Unit)

\* C9: reading spo2 while the table holds fewer than 2 points is rejected
\* with an error and never gives a number.
C9_FewPointsRejected ==
    (ret.op = "spo2" /\ Len(cal_r) < 2) => ret.exc # "none"

\* The defaults as the specification lists them.
C10_DefaultR == <<(4 * Unit) \div 10, (85 * Unit) \div 100, (98 * Unit) \div 100,
                  (11 * Unit) \div 10, 10 * Unit>>

C10_DefaultSpo2 == <<100 * Unit, 97 * Unit, 96 * Unit, 95 * Unit, 0>>

\* C10 as the specification states it: construction with the file absent
\* makes the table the defaults, writes the file with them, and a load of
\* that file gives the defaults again.
C10_AbsentFileWritten ==
    [][(phase = "new" /\ file = AbsentFile /\ phase' # "new") =>
          /\ cal_r' = C10_DefaultR
          /\ cal_spo2' = C10_DefaultSpo2
          /\ file' = JsonFile(BothKeys, C10_DefaultR, C10_DefaultSpo2)
          /\ load_cal_file(file', <<>>, <<>>).r = C10_DefaultR
          /\ load_cal_file(file', <<>>, <<>>).s = C10_DefaultSpo2]_vars

\* C10: construction with the file absent succeeds with the defaults as the
\* table; the file is written with them when it can be opened for writing and
\* stays absent when that is refused; a load of the file as it then stands
\* gives the defaults again.
C10_AbsentFileWrittenIfPermitted ==
    [][(phase = "new" /\ file = AbsentFile /\ phase' # "new") =>
          /\ phase' = "ready"
          /\ cal_r' = C10_DefaultR
          /\ cal_spo2' = C10_DefaultSpo2
          /\ file' = IF writable
                     THEN JsonFile(BothKeys, C10_DefaultR, C10_DefaultSpo2)
                     ELSE AbsentFile
          /\ load_cal_file(file', <<>>, <<>>).exc = "none"
          /\ load_cal_file(file', <<>>, <<>>).r = C10_DefaultR
          /\ load_cal_file(file', <<>>, <<>>).s = C10_DefaultSpo2]_vars

\* Construction found no file and wrote the defaults.
C10_Witness ==
    /\ ret.op = "init"
    /\ ret.exc = "none"
    /\ cal_r = C10_DefaultR
    /\ file = JsonFile(BothKeys, C10_DefaultR, C10_DefaultSpo2)

\* A file that is there but is not JSON or lacks one of the two arrays.
Malformed(f) ==
    f.kind = "unparseable" \/ (f.kind = "json" /\ f.keys # BothKeys)

\* C11: construction on a malformed file fails with an exception, the file
\* stays as it is (no defaults written), and the object that failed to
\* construct never takes another step.
C11_MalformedFileIsFatal ==
    [][/\ (phase = "new" /\ Malformed(file) /\ phase' # "new") =>
             phase' = "failed" /\ ret'.exc # "none" /\ file' = file
       /\ phase # "failed"]_vars

\* Construction has failed on a file that has R_TABLE but lacks SPO2_TABLE.
C11_Witness ==
    /\ phase = "failed"
    /\ ret.op = "init"
    /\ ret.exc = "KeyError"
    /\ file.keys = {"R_TABLE"}

\* C12: save_cal with the file not writable returns normally, and leaves both
\* columns and the file as they were.
C12_SaveRefusedReturns ==
    [][(ret'.op = "save_cal" /\ ~writable) =>
          /\ ret'.exc = "none"
          /\ cal_r' = cal_r
          /\ cal_spo2' = cal_spo2
          /\ file' = file]_vars

\* A save was refused while the table differed from the file.
C12_Witness ==
    /\ ret.op = "save_cal"
    /\ ~writable
    /\ Len(cal_r) > 0
    /\ file # JsonFile(BothKeys, cal_r, cal_spo2)

\* C13: after a save that was permitted, loading the file gives the R column
\* and the SpO2 column as they are in memory, value by value and in order.
C13_SaveLoadRoundTrip ==
    (ret.op = "save_cal" /\ writable) =>
        /\ load_cal_file(file, <<>>, <<>>).exc = "none"
        /\ load_cal_file(file, <<>>, <<>>).r = cal_r
        /\ load_cal_file(file, <<>>, <<>>).s = cal_spo2

\* The table (0.85, 97), (1.0, 97) has been saved.
C13_Witness ==
    /\ ret.op = "save_cal"
    /\ writable
    /\ cal_r = <<(85 * Unit) \div 100, Unit>>
    /\ cal_spo2 = <<97 * Unit, 97 * Unit>>
    /\ file.kind = "json"
    /\ file.R_TABLE # <<>>

\* The last n entries of a sequence.
LastN(xs, n) == SubSeq(xs, Len(xs) - n + 1, Len(xs))

\* The entries of the rate history that were pushed (a pushed rate is not 0).
PushedRates == SelectSeq(heart_rate_history, LAMBDA v : v # FZero)

\* The first and the last timestamp of the window are equal.
ZeroTimeRange == raw_time[max_readings] = raw_time[1]

\* The smoothing and peak detection of the window just completed succeeded.
PeaksDetected ==
    WindowCompleted /\ ret.exc \notin {"ZeroDivisionError", "ValueError"}

\* C14: reset sets the cursor to 0, zeroes the three sample arrays, clears
\* the current R, both RMS values, both heart rates and the peak list, leaves
\* nothing but zeros in the R history and in the rate history, and leaves the
\* two calibration columns and the capacity as they were.
C14_ResetFrame ==
    [][ret'.op = "reset" =>
          /\ data_index' = 0
          /\ raw_red' = [i \in 1..max_readings |-> 0]
          /\ raw_ir' = [i \in 1..max_readings |-> 0]
          /\ raw_time' = [i \in 1..max_readings |-> 0]
          /\ r_value' = 0
          /\ rms_red' = FZero
          /\ rms_ir' = FZero
          /\ heart_rate_inst' = 0
          /\ heart_rate_avg' = 0
          /\ \A i \in 1..Len(r_value_history') : r_value_history'[i] = 0
          /\ \A i \in 1..Len(heart_rate_history') : heart_rate_history'[i] = FZero
          /\ peaks' = <<>>
          /\ cal_r' = cal_r
          /\ cal_spo2' = cal_spo2
          /\ max_readings' = max_readings]_vars

\* A reset after a window that was completed without an exception.
C14_Witness ==
    /\ ret.op = "reset"
    /\ samples_per_second > 0
    /\ windows > 0
    /\ Len(cal_r) > 0

\* C15: after k >= 1 completed windows since construction or reset, r_average
\* is the mean of the most recent min(k, 10) entries of the R history.
C15_AverageOfPushedValues ==
    (phase = "ready" /\ calls >= max_readings) =>
        LET k == calls \div max_readings
            m == Min(k, r_value_history_max)
        IN  r_average = Rat(Sum(LastN(r_value_history, m)), m)

\* C16: when the window just completed gave fewer than two peaks, both heart
\* rates are 0, the rate history is as it was before the call, and the call
\* raises no error.  The window is one whose smoothing and peak detection
\* ran; nothing is assumed about its timestamps.
C16_FewPeaksZeroRatesNoError ==
    [][(ret'.op = "add_data" /\ data_index' = 0
          /\ ret'.exc \notin {"ZeroDivisionError", "ValueError"}
          /\ Len(peaks') < 2) =>
          /\ heart_rate_inst' = 0
          /\ heart_rate_avg' = 0
          /\ heart_rate_history' = heart_rate_history
          /\ ret'.exc = "none"]_vars

\* C17: when the window just completed gave two peaks or more,
\* heart_rate_inst is round(60000 / mean inter-peak delta), the last entry of
\* the rate history is that rounded value, and heart_rate_avg is the rounded
\* mean of the pushed entries of the history.
C17_RoundedRatePushed ==
    (PeaksDetected /\ ret.exc = "none" /\ Len(peaks) >= 2) =>
        LET times == PeakTimes(peaks, raw_time)
        IN  /\ heart_rate_inst = FRoundInt(hr_rate(times))
            /\ heart_rate_history[Len(heart_rate_history)] = FOfInt(heart_rate_inst)
            /\ heart_rate_avg = FRoundInt(stat_mean(PushedRates))

\* C18: a window completion that gets as far as the samples-per-second step
\* raises nothing, also when the first and last timestamps are equal, and
\* otherwise sets samples_per_second to floor(N / (last - first) * 1000).
C18_SamplesPerSecondNeverRaises ==
    PeaksDetected =>
        /\ ret.exc = "none"
        /\ ~ZeroTimeRange =>
              samples_per_second =
                  sps_value(max_readings, raw_time[max_readings] - raw_time[1])

\* C19: the inter-peak deltas behind heart_rate_inst are differences of the
\* timestamps at window index p + 25 for each peak index p of the trimmed
\* sequence.
C19_PeaksTimedInWindow ==
    (PeaksDetected /\ ret.exc = "none" /\ Len(peaks) >= 2) =>
        LET deltas == [i \in 1..(Len(peaks) - 1) |->
                          raw_time[peaks[i + 1] + trim_margin + 1]
                              - raw_time[peaks[i] + trim_margin + 1]]
        IN  heart_rate_inst = FRoundInt(hr_rate(deltas))

\* C20: in every state of a constructed engine the two calibration columns
\* have the same length.
C20_ColumnsEqualLength ==
    phase = "ready" => Len(cal_r) = Len(cal_spo2)

====
